---- MODULE Spec2Model ----
(***************************************************************************)
(* DoubleMappedBuffer<T>: a typed view over a region of virtual memory     *)
(* whose backing object is mapped twice, back to back.                     *)
(*                                                                         *)
(* The typed wrapper (new, slice, slice_mut, slice_with_offset,            *)
(* slice_mut_with_offset, len) is translated from double_mapped_buffer.rs. *)
(* DoubleMappedBufferImpl, pagesize() and the operating system's mapping   *)
(* table are not part of that file; they follow the design document        *)
(* (sections 3, 4.1, 4.2 and 7).                                           *)
(*                                                                         *)
(* Memory is modelled at byte granularity.  An address is a number in      *)
(* 0 .. 2^UsizeBits - 1; the mapping table sends a virtual address to a    *)
(* byte of a backing object, so mirroring is a property of the table and   *)
(* not something the accessors compute.                                    *)
(***************************************************************************)
EXTENDS Integers, Sequences, FiniteSets

\* ------------------------------------------------------------------ bounds
MaxBufs == 2        \* buffer variables of the caller that may be alive at once
MaxItems == 4       \* largest min_items passed to new
MaxWrites == 2      \* stores the caller performs through the mutable slices
MemItems == 2       \* largest min_items of a buffer that is written

PhysMax == 6        \* bytes of backing storage the platform can hand out

\* ------------------------------------------------------- platform facts
UsizeBits == 4      \* width of usize / of an address (scaled down)

UsizeMax == 2^UsizeBits - 1
PageSizes == {2, 4}

\* Element types T as (size_of, align_of): u8, u16, [u8; 3], u32, [u16; 4].
\* Zero-sized T is left out: byte_length / element_size has no value for it.
Types ==
    { [size |-> 1, align |-> 1],
      [size |-> 2, align |-> 2],
      [size |-> 3, align |-> 1],
      [size |-> 4, align |-> 4],
      [size |-> 8, align |-> 2] }

size_of(T) == T.size
align_of(T) == T.align

NoType == [size |-> 0, align |-> 0]
NoImpl == [addr |-> 0, size_bytes |-> 0, item_size |-> 0]

VARIABLES
    ps,         \* the system page size
    bufs,       \* the caller's live DoubleMappedBuffer<T> values
    mappings,   \* the process's mapping table: set of [start, length, obj]
    objmem,     \* backing object -> its bytes
    nwrites,    \* stores done so far
    fault,      \* a store hit unmapped memory, or a region was released twice
    last        \* the last call and what it returned

vars == <<ps, bufs, mappings, objmem, nwrites, fault, last>>

\* --------------------------------------------------- the mapping table
Mapped(a) == \E m \in mappings : m.start <= a /\ a < m.start + m.length

MappingOf(a) == CHOOSE m \in mappings : m.start <= a /\ a < m.start + m.length

\* The byte a virtual address shows; -1 when the address is not mapped.
VRead(a) ==
    IF Mapped(a)
    THEN objmem[MappingOf(a).obj][a - MappingOf(a).start + 1]
    ELSE -1

\* The backing objects after storing byte x at virtual address a.
VWrite(mem, a, x) ==
    IF Mapped(a)
    THEN [mem EXCEPT ![MappingOf(a).obj][a - MappingOf(a).start + 1] = x]
    ELSE mem

RECURSIVE SumLen(_, _)
SumLen(mem, S) ==
    IF S = {} THEN 0
    ELSE LET o == CHOOSE o \in S : TRUE
         IN Len(mem[o]) + SumLen(mem, S \ {o})

\* Bytes of backing storage in use.
PhysUsed == SumLen(objmem, DOMAIN objmem)

\* ------------------------------------------------ DoubleMappedBufferImpl
RoundUp(bytes, page) == ((bytes + page - 1) \div page) * page

\* Page-aligned, non-null bases at which 2 * byte_length bytes are free.
FreeBases(byte_length, table) ==
    { a \in 1..UsizeMax :
        /\ a % ps = 0
        /\ a + 2 * byte_length <= UsizeMax + 1
        /\ \A m \in table :
              a + 2 * byte_length <= m.start \/ m.start + m.length <= a }

\* Two adjacent mappings of one backing object; the object is named by base.
DoubleMap(base, byte_length) ==
    { [start |-> base, length |-> byte_length, obj |-> base],
      [start |-> base + byte_length, length |-> byte_length, obj |-> base] }

\* The error DoubleMappedBufferImpl::new returns, "" when it succeeds.
ImplError(min_items, item_size, alignment) ==
    IF min_items * item_size > UsizeMax THEN "SizeOverflow"
    ELSE IF alignment > ps THEN "Unsupported"
    ELSE IF RoundUp(min_items * item_size, ps) > UsizeMax THEN "SizeOverflow"
    ELSE IF PhysUsed + RoundUp(min_items * item_size, ps) > PhysMax
         THEN "OutOfMemory"
    ELSE IF FreeBases(RoundUp(min_items * item_size, ps), mappings) = {}
         THEN "MappingFailed"
    ELSE ""

\* The value DoubleMappedBufferImpl::new builds at base.
ImplNew(min_items, item_size, base) ==
    [addr |-> base,
     size_bytes |-> RoundUp(min_items * item_size, ps),
     item_size |-> item_size]

\* Both halves of the region of impl are in the table.
IsDoubleMapped(impl) == DoubleMap(impl.addr, impl.size_bytes) \subseteq mappings

\* The table after dropping impl: both ranges unmapped.
Release(impl) == mappings \ DoubleMap(impl.addr, impl.size_bytes)

ImplAddr(impl) == impl.addr
ImplLen(impl) == impl.size_bytes \div impl.item_size

\* ------------------------------------------------ DoubleMappedBuffer<T>
\* new with every error arm collapsed into one error.
new_collapsing(r) ==
    IF r.ok
    THEN [ok |-> TRUE, buffer |-> r.buffer, err |-> ""]
    ELSE [ok |-> FALSE, buffer |-> r.buffer, err |-> "MappingFailed"]

\* new that wraps whatever it got, error or not.
new_always_ok(r) == [ok |-> TRUE, buffer |-> r.buffer, err |-> ""]

\* What new returns for the result r of DoubleMappedBufferImpl::new.
new(r) ==
    IF r.ok
    THEN [ok |-> TRUE, buffer |-> r.buffer, err |-> ""]
    ELSE [ok |-> FALSE, buffer |-> r.buffer, err |-> r.err]

\* slice asserting the address against the size of T instead of its alignment.
slice_size_aligned(b) ==
    [ptr |-> ImplAddr(b.buffer),
     len |-> ImplLen(b.buffer),
     panic |-> ImplAddr(b.buffer) % size_of(b.T) # 0]

\* slice_mut starting one element late.
slice_mut_shifted(b) ==
    [ptr |-> ImplAddr(b.buffer) + size_of(b.T),
     len |-> ImplLen(b.buffer),
     panic |-> ImplAddr(b.buffer) % align_of(b.T) # 0]

\* len counting one element short.
len_short(b) == ImplLen(b.buffer) - 1

\* A DoubleMappedBuffer that holds its buffer without owning it.
owned_fields_leaky == {"_p"}

\* The accessors hand back a window: where it starts, how many elements it
\* has, and whether a debug assertion stopped the call instead.
slice(b) ==
    [ptr |-> ImplAddr(b.buffer),
     len |-> ImplLen(b.buffer),
     panic |-> ImplAddr(b.buffer) % align_of(b.T) # 0]

slice_mut(b) ==
    [ptr |-> ImplAddr(b.buffer),
     len |-> ImplLen(b.buffer),
     panic |-> ImplAddr(b.buffer) % align_of(b.T) # 0]

slice_with_offset(b, offset) ==
    [ptr |-> ImplAddr(b.buffer) + offset * size_of(b.T),
     len |-> ImplLen(b.buffer),
     panic |-> \/ ImplAddr(b.buffer) % align_of(b.T) # 0
               \/ ~(offset <= ImplLen(b.buffer))]

slice_mut_with_offset(b, offset) ==
    [ptr |-> ImplAddr(b.buffer) + offset * size_of(b.T),
     len |-> ImplLen(b.buffer),
     panic |-> \/ ImplAddr(b.buffer) % align_of(b.T) # 0
               \/ ~(offset <= ImplLen(b.buffer))]

len(b) == ImplLen(b.buffer)

\* The fields a DoubleMappedBuffer owns by value; dropping it drops them.
owned_fields == {"buffer", "_p"}

\* ------------------------------------------------- elements in memory
\* Byte k (0-based) of the little-endian image of element value v.
RECURSIVE ByteOf(_, _)
ByteOf(v, k) == IF k = 0 THEN v % 256 ELSE ByteOf(v \div 256, k - 1)

\* The bytes of value v as an element of type T.
Image(v, T) == [k \in 0..(size_of(T) - 1) |-> ByteOf(v, k)]

\* Element i of window w of elements of type T, as its bytes.
ReadElem(w, T, i) ==
    [k \in 0..(size_of(T) - 1) |-> VRead(w.ptr + i * size_of(T) + k)]

RECURSIVE StoreBytes(_, _, _, _)
StoreBytes(mem, a, v, k) ==
    IF k < 0 THEN mem
    ELSE StoreBytes(VWrite(mem, a + k, ByteOf(v, k)), a, v, k - 1)

\* The backing objects after w[i] = v.
StoreElem(w, T, i, v) ==
    StoreBytes(objmem, w.ptr + i * size_of(T), v, size_of(T) - 1)

\* w[i] lies in mapped memory.
ElemMapped(w, T, i) ==
    \A k \in 0..(size_of(T) - 1) : Mapped(w.ptr + i * size_of(T) + k)

Zeros(n) == [k \in 1..n |-> 0]

\* ------------------------------------------------------------- the calls
\* The caller stores a fresh value each time: 1, 2, 3, ...
Stamp == nwrites + 1

\* A record of a call on the buffer at address a (0: no buffer).
Call(op, a) ==
    [op |-> op, buf |-> a, n |-> 0, T |-> NoType, err |-> "", implErr |-> "",
     ptr |-> 0, len |-> 0, panic |-> FALSE, offset |-> 0, idx |-> 0,
     val |-> 0]

Init ==
    /\ ps \in PageSizes
    /\ bufs = {}
    /\ mappings = {}
    /\ objmem = << >>
    /\ nwrites = 0
    /\ fault = FALSE
    /\ last = Call("start", 0)

\* DoubleMappedBuffer::<T>::new(n) when DoubleMappedBufferImpl::new fails:
\* nothing was mapped, and new hands on what it got.
NewErr(T, n) ==
    /\ ImplError(n, size_of(T), align_of(T)) # ""
    /\ LET e == ImplError(n, size_of(T), align_of(T))
           r == new([ok |-> FALSE, buffer |-> NoImpl, err |-> e])
       IN  /\ bufs' = IF r.ok THEN bufs \cup {[T |-> T, buffer |-> r.buffer]}
                      ELSE bufs
           /\ last' = [Call("new", IF r.ok THEN r.buffer.addr ELSE 0) EXCEPT
                         !.n = n, !.T = T, !.err = r.err, !.implErr = e]
    /\ UNCHANGED <<ps, mappings, objmem, nwrites, fault>>

\* let b = DoubleMappedBuffer::<T>::new(n) when DoubleMappedBufferImpl::new
\* succeeds, at some free base.  A value new does not keep is dropped.
NewOk(T, n) ==
    /\ Cardinality(bufs) < MaxBufs
    /\ ImplError(n, size_of(T), align_of(T)) = ""
    /\ \E base \in FreeBases(RoundUp(n * size_of(T), ps), mappings) :
         LET impl == ImplNew(n, size_of(T), base)
             r == new([ok |-> TRUE, buffer |-> impl, err |-> ""])
         IN  IF r.ok
             THEN /\ bufs' = bufs \cup {[T |-> T, buffer |-> r.buffer]}
                  /\ mappings' = mappings \cup DoubleMap(base, impl.size_bytes)
                  /\ objmem' = [o \in DOMAIN objmem \cup {base} |->
                                  IF o = base THEN Zeros(impl.size_bytes)
                                  ELSE objmem[o]]
                  /\ last' = [Call("new", r.buffer.addr) EXCEPT
                                !.n = n, !.T = T]
             ELSE /\ UNCHANGED <<bufs, mappings, objmem>>
                  /\ last' = [Call("new", 0) EXCEPT
                                !.n = n, !.T = T, !.err = r.err]
    /\ UNCHANGED <<ps, nwrites, fault>>

\* b goes out of scope: its owned fields are dropped, and dropping the
\* DoubleMappedBufferImpl releases the region.
Drop(b) ==
    /\ b \in bufs
    /\ bufs' = bufs \ {b}
    /\ IF "buffer" \in owned_fields
       THEN /\ mappings' = Release(b.buffer)
            /\ objmem' = [o \in DOMAIN objmem \ {b.buffer.addr} |-> objmem[o]]
            /\ fault' = (fault \/ ~IsDoubleMapped(b.buffer))
       ELSE UNCHANGED <<mappings, objmem, fault>>
    /\ last' = Call("drop", b.buffer.addr)
    /\ UNCHANGED <<ps, nwrites>>

\* b.len()
CallLen(b) ==
    /\ b \in bufs
    /\ last' = [Call("len", b.buffer.addr) EXCEPT !.len = len(b)]
    /\ UNCHANGED <<ps, bufs, mappings, objmem, nwrites, fault>>

\* b.slice()
CallSlice(b) ==
    /\ b \in bufs
    /\ LET w == slice(b)
       IN last' = [Call("slice", b.buffer.addr) EXCEPT
                     !.ptr = w.ptr, !.len = w.len, !.panic = w.panic]
    /\ UNCHANGED <<ps, bufs, mappings, objmem, nwrites, fault>>

\* b.slice_with_offset(offset), for an offset the caller may pass
CallSliceWithOffset(b) ==
    /\ b \in bufs
    /\ \E offset \in 0..len(b) :
         LET w == slice_with_offset(b, offset)
         IN last' = [Call("slice_with_offset", b.buffer.addr) EXCEPT
                       !.ptr = w.ptr, !.len = w.len, !.panic = w.panic,
                       !.offset = offset]
    /\ UNCHANGED <<ps, bufs, mappings, objmem, nwrites, fault>>

\* b.slice_mut()[i] = v
WriteSliceMut(b) ==
    /\ b \in bufs
    /\ nwrites < MaxWrites
    /\ LET w == slice_mut(b)
       IN \E i \in 0..(w.len - 1) :
           /\ objmem' = IF w.panic THEN objmem ELSE StoreElem(w, b.T, i, Stamp)
           /\ fault' = (fault \/ (~w.panic /\ ~ElemMapped(w, b.T, i)))
           /\ last' = [Call("slice_mut", b.buffer.addr) EXCEPT
                         !.ptr = w.ptr, !.len = w.len, !.panic = w.panic,
                         !.idx = i, !.val = Stamp]
    /\ nwrites' = nwrites + 1
    /\ UNCHANGED <<ps, bufs, mappings>>

\* b.slice_mut_with_offset(offset)[i] = v
WriteSliceMutWithOffset(b) ==
    /\ b \in bufs
    /\ nwrites < MaxWrites
    /\ \E offset \in 0..len(b) :
         LET w == slice_mut_with_offset(b, offset)
         IN \E i \in 0..(w.len - 1) :
             /\ objmem' = IF w.panic THEN objmem
                          ELSE StoreElem(w, b.T, i, Stamp)
             /\ fault' = (fault \/ (~w.panic /\ ~ElemMapped(w, b.T, i)))
             /\ last' = [Call("slice_mut_with_offset", b.buffer.addr) EXCEPT
                           !.ptr = w.ptr, !.len = w.len, !.panic = w.panic,
                           !.idx = i, !.val = Stamp, !.offset = offset]
    /\ nwrites' = nwrites + 1
    /\ UNCHANGED <<ps, bufs, mappings>>

\* Construction, destruction and the read-only calls.
Next ==
    \/ \E T \in Types, n \in 1..MaxItems : NewErr(T, n)
    \/ \E T \in Types, n \in 1..MaxItems : NewOk(T, n)
    \/ \E b \in bufs : Drop(b)
    \/ \E b \in bufs : CallLen(b)
    \/ \E b \in bufs : CallSlice(b)
    \/ \E b \in bufs : CallSliceWithOffset(b)

Spec == Init /\ [][Next]_vars

\* Buffers that are created, written through both mutable slices and dropped.
NextMem ==
    \/ \E T \in Types, n \in 1..MemItems : NewOk(T, n)
    \/ \E b \in bufs : Drop(b)
    \/ \E b \in bufs : WriteSliceMut(b)
    \/ \E b \in bufs : WriteSliceMutWithOffset(b)

SpecMem == Init /\ [][NextMem]_vars

\* Coexisting buffers that are written through slice_mut() and read.
NextFrame ==
    \/ \E T \in Types, n \in 1..MemItems : NewOk(T, n)
    \/ \E b \in bufs : Drop(b)
    \/ \E b \in bufs : CallLen(b)
    \/ \E b \in bufs : CallSlice(b)
    \/ \E b \in bufs : CallSliceWithOffset(b)
    \/ \E b \in bufs : WriteSliceMut(b)

SpecFrame == Init /\ [][NextFrame]_vars

\* ------------------------------------------------------------ properties
Errors == {"SizeOverflow", "Unsupported", "OutOfMemory", "MappingFailed"}

Live(a) == \E b \in bufs : b.buffer.addr = a

BufAt(a) == CHOOSE b \in bufs : b.buffer.addr = a

MappingsOf(B) == UNION { DoubleMap(b.buffer.addr, b.buffer.size_bytes) : b \in B }

Overflows(n, T) == n * size_of(T) > UsizeMax

\* Some element of the region of b is not zero.
Written(b) == \E i \in 0..(len(b) - 1) : ReadElem(slice(b), b.T, i) # Image(0, b.T)

\* C1: for every live buffer of length L, every offset in 0..L and every i in
\* 0..L-1, slice_with_offset(offset)[i] equals slice()[(offset + i) mod L],
\* whatever was written before.
C1_OffsetViewMirrors ==
    \A b \in bufs : \A offset \in 0..len(b) : \A i \in 0..(len(b) - 1) :
        ReadElem(slice_with_offset(b, offset), b.T, i)
            = ReadElem(slice(b), b.T, (offset + i) % len(b))

\* C2: right after v was stored at index i of slice_mut_with_offset(offset),
\* slice()[(offset + i) mod L] reads v.
C2_OffsetWriteReadsBack ==
    (last.op = "slice_mut_with_offset" /\ Live(last.buf)) =>
        ReadElem(slice(BufAt(last.buf)), BufAt(last.buf).T,
                 (last.offset + last.idx) % len(BufAt(last.buf)))
            = Image(last.val, BufAt(last.buf).T)

\* C3: for every live buffer, len() * size_of(T) is a nonzero multiple of the
\* page size.
C3_WholePages ==
    \A b \in bufs :
        /\ len(b) * size_of(b.T) > 0
        /\ (len(b) * size_of(b.T)) % ps = 0

\* C4: when new(min_items) has just succeeded, the buffer's len() is at least
\* min_items, is positive, and is the page-rounded byte count divided by the
\* element size.
C4_LenCoversRequest ==
    (last.op = "new" /\ last.err = "") =>
        \E b \in bufs :
            /\ b.buffer.addr = last.buf
            /\ b.T = last.T
            /\ len(b) >= last.n
            /\ len(b) > 0
            /\ len(b) = RoundUp(last.n * size_of(last.T), ps) \div size_of(last.T)

C4_Witness ==
    /\ last.op = "new"
    /\ last.err = ""
    /\ Live(last.buf)
    /\ len(BufAt(last.buf)) > last.n

\* C5: a call of new whose min_items * size_of(T) does not fit in usize
\* returns SizeOverflow, builds no buffer and maps nothing.
C5_OverflowIsRefused ==
    [][ (last'.op = "new" /\ Overflows(last'.n, last'.T)) =>
            /\ last'.err = "SizeOverflow"
            /\ last'.buf = 0
            /\ UNCHANGED <<bufs, mappings, objmem, fault>> ]_vars

C5_Witness ==
    /\ last.op = "new"
    /\ Overflows(last.n, last.T)
    /\ align_of(last.T) <= ps
    /\ last.err = "SizeOverflow"
    /\ bufs # {}

\* No debug assertion of the four accessors fails on a live buffer, and its
\* base address is a multiple of align_of(T).
AssertionsHold ==
    /\ last.panic = FALSE
    /\ \A b \in bufs :
        /\ ImplAddr(b.buffer) % align_of(b.T) = 0
        /\ ~slice(b).panic
        /\ ~slice_mut(b).panic
        /\ \A offset \in 0..len(b) :
              /\ ~slice_with_offset(b, offset).panic
              /\ ~slice_mut_with_offset(b, offset).panic

\* C6 as stated: new fails with Unsupported whenever align_of(T) exceeds the
\* page size, and no accessor assertion can fail on a live buffer.
C6_UnsupportedWheneverOveraligned ==
    /\ (last.op = "new" /\ align_of(last.T) > ps) => last.err = "Unsupported"
    /\ AssertionsHold

\* C6 amended: new fails whenever align_of(T) exceeds the page size, with
\* SizeOverflow when min_items * size_of(T) also overflows and with
\* Unsupported otherwise, and no accessor assertion can fail on a live buffer.
C6_OveralignedIsRefused ==
    /\ (last.op = "new" /\ align_of(last.T) > ps) =>
          /\ last.buf = 0
          /\ last.err = IF Overflows(last.n, last.T) THEN "SizeOverflow"
                        ELSE "Unsupported"
    /\ AssertionsHold

C6_Witness ==
    /\ last.op = "new"
    /\ align_of(last.T) > ps
    /\ last.err = "Unsupported"
    /\ \E b \in bufs : align_of(b.T) > 1

\* Every live buffer's region is mapped twice on one backing object of
\* size_bytes bytes, and nothing else is mapped or allocated.
FullyMapped ==
    /\ \A b \in bufs :
        /\ IsDoubleMapped(b.buffer)
        /\ b.buffer.addr \in DOMAIN objmem
        /\ Len(objmem[b.buffer.addr]) = b.buffer.size_bytes
        /\ b.buffer.size_bytes > 0
    /\ mappings = MappingsOf(bufs)
    /\ DOMAIN objmem = { b.buffer.addr : b \in bufs }

\* C7: after every step all live buffers are fully double-mapped; a call of
\* new that fails returns the error of DoubleMappedBufferImpl::new unchanged,
\* builds no buffer and leaves mappings and backing storage as they were; a
\* call that succeeds adds exactly one buffer.
C7_AllOrNothing ==
    [][ /\ FullyMapped'
        /\ (last'.op = "new" /\ last'.err # "") =>
              /\ last'.err = last'.implErr
              /\ last'.err \in Errors
              /\ last'.buf = 0
              /\ UNCHANGED <<bufs, mappings, objmem>>
        /\ (last'.op = "new" /\ last'.err = "") =>
              \E b \in bufs' \ bufs :
                  /\ b.buffer.addr = last'.buf
                  /\ bufs' = bufs \cup {b} ]_vars

C7_Witness ==
    /\ last.op = "new"
    /\ last.err \in {"OutOfMemory", "MappingFailed"}
    /\ bufs # {}
    /\ FullyMapped

\* The request of the last call of new cannot be met even when nothing else
\* is mapped.
TooLargeForEmptyMachine ==
    \/ RoundUp(last.n * size_of(last.T), ps) > PhysMax
    \/ FreeBases(RoundUp(last.n * size_of(last.T), ps), {}) = {}

C9_Windows ==
    \A b \in bufs :
        /\ slice(b).ptr = ImplAddr(b.buffer)
        /\ slice(b).len = len(b)
        /\ slice_mut(b).ptr = ImplAddr(b.buffer)
        /\ slice_mut(b).len = len(b)
        /\ \A offset \in 0..len(b) :
              /\ slice_with_offset(b, offset).ptr
                    = ImplAddr(b.buffer) + offset * size_of(b.T)
              /\ slice_with_offset(b, offset).len = len(b)
              /\ slice_mut_with_offset(b, offset).ptr
                    = ImplAddr(b.buffer) + offset * size_of(b.T)
              /\ slice_mut_with_offset(b, offset).len = len(b)
        /\ slice_with_offset(b, len(b)).ptr
              = ImplAddr(b.buffer) + b.buffer.size_bytes
        /\ slice_mut_with_offset(b, len(b)).ptr
              = ImplAddr(b.buffer) + b.buffer.size_bytes

\* The elements of slice() of b, in order.
Contents(b) == [j \in 0..(len(b) - 1) |-> ReadElem(slice(b), b.T, j)]

\* C10: storing x at index i of slice_mut() of buffer B makes slice()[i] of B
\* read x and changes no other element of B, no element of any other live
\* buffer and no buffer's length; len(), slice() and slice_with_offset()
\* change nothing.
C10_WriteFrame ==
    [][ /\ (last'.op = "slice_mut") =>
              \E b \in bufs :
                  /\ b.buffer.addr = last'.buf
                  /\ bufs' = bufs
                  /\ mappings' = mappings
                  /\ last'.idx \in 0..(len(b) - 1)
                  /\ Contents(b)' = [Contents(b) EXCEPT
                                       ![last'.idx] = Image(last'.val, b.T)]
                  /\ \A c \in bufs \ {b} : Contents(c)' = Contents(c)
        /\ (last'.op \in {"len", "slice", "slice_with_offset"}) =>
              UNCHANGED <<bufs, mappings, objmem, nwrites, fault>> ]_vars

C10_Witness ==
    /\ last.op = "slice_mut"
    /\ Cardinality(bufs) = 2
    /\ \A b \in bufs : Written(b)
    /\ \E b \in bufs : len(b) > 1 /\ b.buffer.addr = last.buf

====
